---- MODULE Spec2Model ----
(***************************************************************************)
(* kom_forecast: the favorability engine of src/main.py, the compass       *)
(* mapping of src/kom_reader.py and the process-wide Config of             *)
(* src/config.py.                                                          *)
(*                                                                         *)
(* Units.  Angles are tenths of a degree (22.5 degrees = 225), wind speeds *)
(* tenths of a mph, times of day minutes after midnight, dates day         *)
(* numbers.  A Python float in [0, 1] (alignment, speed score, overall     *)
(* score) is a fixed-point number of Scale units (1.0 = Scale), and every  *)
(* float operation rounds its exact result to the nearest unit, ties to    *)
(* even, as IEEE-754 does on its own grid.                                 *)
(***************************************************************************)
EXTENDS Integers, Sequences, FiniteSets, TLC

VARIABLES
    segment_deg,                       \* argument: segment bearing
    forecast_list,                     \* argument: the observations
    min_wind_speed_needed,             \* argument
    direction_tolerance_in_degrees,    \* argument
    desired_quality_percentage,        \* argument
    TOP_WIND_SPEED,                    \* Config.TOP_WIND_SPEED (class attribute)
    pc,                                \* where the call stands
    idx,                               \* position of the filter loop
    favorable_conditions,              \* list of <<score, forecast>>
    favorable_conditions_by_date,      \* dict date -> list of <<score, forecast>>
    dates_left,                        \* keys the sort loop has not visited yet
    sorted_by_date_then_by_score,      \* the list being built by the sort loop
    result,                            \* the returned list
    calls,                             \* calls made so far
    first_result,                      \* what the first call returned
    call,                              \* helper call: function and arguments
    ret,                               \* helper call: the number returned
    ret_flag,                          \* helper call: the bool returned
    ret_text                           \* helper call: the str returned

engine_vars == <<segment_deg, forecast_list, min_wind_speed_needed,
                 direction_tolerance_in_degrees, desired_quality_percentage,
                 TOP_WIND_SPEED, pc, idx, favorable_conditions,
                 favorable_conditions_by_date, dates_left,
                 sorted_by_date_then_by_score, result, calls, first_result>>

helper_vars == <<call, ret, ret_flag, ret_text>>

vars == <<engine_vars, helper_vars>>

----------------------------------------------------------------------------
(* Bounds of the model *)

MaxObs == 3

----------------------------------------------------------------------------
(* Arithmetic *)

Scale == 10 * 1000

Abs(x) == IF x < 0 THEN -x ELSE x

Min(a, b) == IF a < b THEN a ELSE b

\* n / d for n >= 0, d > 0, rounded to the nearest integer, ties to even:
\* the rounding of a float division or product, and of Python's round().
RoundDiv(n, d) ==
    LET q == n \div d
        r == n % d
    IN  IF 2 * r > d \/ (2 * r = d /\ q % 2 = 1) THEN q + 1 ELSE q

\* math.pi / 2.  The double math.pi lies below pi, so math.pi / 2 lies below
\* pi/2 and its cosine is positive (6.1e-17), not 0.0.  The fixed-point
\* grid keeps that: 1.5707 is the grid value below pi/2.
HALF_PI == 15707

\* math.cos(x) for x in [0, math.pi / 2], x and the result in Scale units:
\* the Taylor series of the cosine in Horner form.
math_cos(x) ==
    LET x2 == RoundDiv(x * x, Scale)
        t5 == Scale - RoundDiv(x2 * Scale, 90 * Scale)
        t4 == Scale - RoundDiv(x2 * t5, 56 * Scale)
        t3 == Scale - RoundDiv(x2 * t4, 30 * Scale)
        t2 == Scale - RoundDiv(x2 * t3, 12 * Scale)
    IN  Scale - RoundDiv(x2 * t2, 2 * Scale)

\* faulty variant: ties rounded up
python_round_percent_half_up(x) == (x * 100 + Scale \div 2) \div Scale

\* round(x * 100) for a score x in Scale units
python_round_percent(x) == RoundDiv(x * 100, Scale)

----------------------------------------------------------------------------
(* The pure functions of src/main.py *)

\* faulty variant: no wraparound at the 0/360 boundary
calculate_absolute_angle_difference_unwrapped(seg_deg, wind_deg) ==
    Abs(seg_deg - ((wind_deg + 1800) % 3600))

calculate_absolute_angle_difference(seg_deg, wind_deg) ==
    LET wind_to_deg == (wind_deg + 1800) % 3600
        angle_diff  == Abs(seg_deg - wind_to_deg)
    IN  Min(angle_diff, 3600 - angle_diff)

calculate_wind_alignment_score(seg_deg, wind_deg, degree_tolerance) ==
    LET angle_diff == calculate_absolute_angle_difference(seg_deg, wind_deg)
        ratio == RoundDiv(angle_diff * Scale, degree_tolerance)
        normalized_angle == RoundDiv(ratio * HALF_PI, Scale)
    IN  IF angle_diff > degree_tolerance THEN 0 ELSE math_cos(normalized_angle)

\* faulty variant: the window closed at sunset
is_daylight_hours_closed(datetime_to_check, sunrise, sunset) ==
    /\ sunrise.time <= datetime_to_check.time
    /\ datetime_to_check.time <= sunset.time

\* faulty variant: whole datetimes compared, the date first
is_daylight_hours_dated(datetime_to_check, sunrise, sunset) ==
    LET stamp(d) == d.date * 1440 + d.time
    IN  /\ stamp(sunrise) <= stamp(datetime_to_check)
        /\ stamp(datetime_to_check) < stamp(sunset)

is_daylight_hours(datetime_to_check, sunrise, sunset) ==
    /\ sunrise.time <= datetime_to_check.time
    /\ datetime_to_check.time < sunset.time

wind_speed_score(forecast, top_wind_speed) ==
    Min(RoundDiv(forecast.wind_speed * Scale, top_wind_speed), Scale)

overall_score(alignment, speed_score) ==
    RoundDiv(alignment * 3, 10) + RoundDiv(speed_score * 7, 10)

\* faulty variant: x goes behind the elements that tie with it
insert_by_score_after_ties(x, rest) ==
    LET k == Cardinality({j \in 1..Len(rest) : rest[j][1] >= x[1]})
    IN  SubSeq(rest, 1, k) \o <<x>> \o SubSeq(rest, k + 1, Len(rest))

\* sorted(pairs, reverse=True, key=lambda x: x[0]): descending by score and
\* stable, so x, which precedes every element of the already sorted rest in
\* the input, goes in front of the elements that do not beat its score.
insert_by_score(x, rest) ==
    LET k == Cardinality({j \in 1..Len(rest) : rest[j][1] > x[1]})
    IN  SubSeq(rest, 1, k) \o <<x>> \o SubSeq(rest, k + 1, Len(rest))

\* faulty variant: the groups are not sorted, each keeps its encounter order
sorted_by_score_unsorted(pairs) == pairs

RECURSIVE sorted_by_score(_)
sorted_by_score(pairs) ==
    IF pairs = <<>> THEN <<>>
    ELSE insert_by_score(Head(pairs), sorted_by_score(Tail(pairs)))

\* favorable_conditions_by_date.setdefault(date, []).append(pair), for every
\* pair of the list in order
\* faulty variant: a date seen again has its list replaced by the new pair
RECURSIVE group_by_date_overwriting(_, _)
group_by_date_overwriting(pairs, fl) ==
    IF pairs = <<>> THEN <<>>
    ELSE LET n     == Len(pairs)
             front == group_by_date_overwriting(SubSeq(pairs, 1, n - 1), fl)
             pair  == pairs[n]
             date  == fl[pair[2]].datetime.date
         IN  [d \in DOMAIN front \cup {date} |->
                 IF d = date THEN <<pair>> ELSE front[d]]

RECURSIVE group_by_date(_, _)
group_by_date(pairs, fl) ==
    IF pairs = <<>> THEN <<>>
    ELSE LET n     == Len(pairs)
             front == group_by_date(SubSeq(pairs, 1, n - 1), fl)
             pair  == pairs[n]
             date  == fl[pair[2]].datetime.date
         IN  IF date \in DOMAIN front
             THEN [front EXCEPT ![date] = Append(@, pair)]
             ELSE [d \in DOMAIN front \cup {date} |->
                      IF d = date THEN <<pair>> ELSE front[d]]

\* the first key of sorted(keys)
first_date(dates) == CHOOSE d \in dates : \A e \in dates : d <= e

----------------------------------------------------------------------------
(* The inputs of the model *)

SunriseTime == 7 * 60

SunsetTime == 19 * 60

Noon == 13 * 60

\* one entry of get_wind_forecast(): sunrise and sunset are those of the
\* entry's own date
Forecast(date, time, speed, degrees) ==
    [datetime     |-> [date |-> date, time |-> time],
     sunrise      |-> [date |-> date, time |-> SunriseTime],
     sunset       |-> [date |-> date, time |-> SunsetTime],
     wind_speed   |-> speed,
     wind_degrees |-> degrees]

Forecasts ==
    { Forecast(1, Noon, 200, 900),          \* aligned, at the cap
      Forecast(1, SunriseTime, 200, 900),   \* the same wind at sunrise
      Forecast(1, SunsetTime, 200, 900),    \* the same wind at sunset
      Forecast(1, Noon, 170, 1000),         \* 10 degrees off, 17 mph
      Forecast(1, Noon, 100, 900),          \* aligned, 10 mph
      Forecast(1, Noon, 200, 1100),         \* 20 degrees off
      Forecast(2, Noon, 200, 900),          \* aligned, at the cap, next day
      Forecast(2, Noon, 171, 1000),         \* 10 degrees off, 17.1 mph
      Forecast(2, Noon, 200, 1050) }        \* 15 degrees off

ForecastLists == UNION { [1..n -> Forecasts] : n \in 0..MaxObs }

----------------------------------------------------------------------------
(* find_favorable_wind_conditions_for_a_segment *)

alignment_of(forecast) ==
    calculate_wind_alignment_score(segment_deg, forecast.wind_degrees,
                                   direction_tolerance_in_degrees)

score_of(forecast) ==
    overall_score(alignment_of(forecast),
                  wind_speed_score(forecast, TOP_WIND_SPEED))

HelpersIdle ==
    /\ call = [fn |-> "none"]
    /\ ret = 0
    /\ ret_flag = FALSE
    /\ ret_text = <<>>

EngineStart ==
    /\ pc = "filter"
    /\ idx = 1
    /\ favorable_conditions = <<>>
    /\ favorable_conditions_by_date = <<>>
    /\ dates_left = {}
    /\ sorted_by_date_then_by_score = <<>>
    /\ result = <<>>

Init ==
    /\ segment_deg = 2700
    /\ forecast_list \in ForecastLists
    /\ min_wind_speed_needed \in {50, 150}
    /\ direction_tolerance_in_degrees = 150
    /\ desired_quality_percentage \in {0, 74, 75}
    /\ TOP_WIND_SPEED = 200
    /\ EngineStart
    /\ calls = 1
    /\ first_result = <<>>
    /\ HelpersIdle

\* faulty variant: a zero alignment score is not skipped, only weighted
\* with zero and left to the quality threshold
FilterStepZeroWeight ==
    /\ pc = "filter"
    /\ idx <= Len(forecast_list)
    /\ LET forecast == forecast_list[idx]
           score == score_of(forecast)
       IN  favorable_conditions' =
             IF ~is_daylight_hours(forecast.datetime, forecast.sunrise,
                                   forecast.sunset)
             THEN favorable_conditions
             ELSE IF forecast.wind_speed < min_wind_speed_needed
             THEN favorable_conditions
             ELSE IF python_round_percent(score) < desired_quality_percentage
             THEN favorable_conditions
             ELSE Append(favorable_conditions, <<score, idx>>)
    /\ idx' = idx + 1
    /\ UNCHANGED <<segment_deg, forecast_list, min_wind_speed_needed,
                   direction_tolerance_in_degrees, desired_quality_percentage,
                   TOP_WIND_SPEED, pc, favorable_conditions_by_date,
                   dates_left, sorted_by_date_then_by_score, result, calls,
                   first_result, helper_vars>>

\* one pass of the loop of lines 207-234
FilterStep ==
    /\ pc = "filter"
    /\ idx <= Len(forecast_list)
    /\ LET forecast == forecast_list[idx]
           wind_alignment_score == alignment_of(forecast)
           score == score_of(forecast)
       IN  favorable_conditions' =
             IF ~is_daylight_hours(forecast.datetime, forecast.sunrise,
                                   forecast.sunset)
             THEN favorable_conditions
             ELSE IF forecast.wind_speed < min_wind_speed_needed
             THEN favorable_conditions
             ELSE IF wind_alignment_score = 0
             THEN favorable_conditions
             ELSE IF python_round_percent(score) < desired_quality_percentage
             THEN favorable_conditions
             ELSE Append(favorable_conditions, <<score, idx>>)
    /\ idx' = idx + 1
    /\ UNCHANGED <<segment_deg, forecast_list, min_wind_speed_needed,
                   direction_tolerance_in_degrees, desired_quality_percentage,
                   TOP_WIND_SPEED, pc, favorable_conditions_by_date,
                   dates_left, sorted_by_date_then_by_score, result, calls,
                   first_result, helper_vars>>

\* the loop of lines 237-240
GroupByDate ==
    /\ pc = "filter"
    /\ idx > Len(forecast_list)
    /\ favorable_conditions_by_date' =
           group_by_date(favorable_conditions, forecast_list)
    /\ dates_left' = DOMAIN favorable_conditions_by_date'
    /\ pc' = "sort"
    /\ UNCHANGED <<segment_deg, forecast_list, min_wind_speed_needed,
                   direction_tolerance_in_degrees, desired_quality_percentage,
                   TOP_WIND_SPEED, idx, favorable_conditions,
                   sorted_by_date_then_by_score, result, calls, first_result,
                   helper_vars>>

\* one pass of the loop of lines 244-248
SortDate ==
    /\ pc = "sort"
    /\ dates_left # {}
    /\ LET date == first_date(dates_left)
       IN  /\ sorted_by_date_then_by_score' =
                 sorted_by_date_then_by_score \o
                 sorted_by_score(favorable_conditions_by_date[date])
           /\ dates_left' = dates_left \ {date}
    /\ UNCHANGED <<segment_deg, forecast_list, min_wind_speed_needed,
                   direction_tolerance_in_degrees, desired_quality_percentage,
                   TOP_WIND_SPEED, pc, idx, favorable_conditions,
                   favorable_conditions_by_date, result, calls, first_result,
                   helper_vars>>

\* line 250
Return ==
    /\ pc = "sort"
    /\ dates_left = {}
    /\ result' = sorted_by_date_then_by_score
    /\ pc' = "done"
    /\ UNCHANGED <<segment_deg, forecast_list, min_wind_speed_needed,
                   direction_tolerance_in_degrees, desired_quality_percentage,
                   TOP_WIND_SPEED, idx, favorable_conditions,
                   favorable_conditions_by_date, dates_left,
                   sorted_by_date_then_by_score, calls, first_result,
                   helper_vars>>

Next == FilterStep \/ GroupByDate \/ SortDate \/ Return

Spec == Init /\ [][Next]_vars

----------------------------------------------------------------------------
(* Two calls with the same arguments under a Config that is reassigned      *)

MaxCalls == 2

ConfigForecasts ==
    { Forecast(1, Noon, 170, 1000),
      Forecast(1, Noon, 100, 900),
      Forecast(2, Noon, 200, 900) }

InitConfig ==
    /\ segment_deg = 2700
    /\ forecast_list \in UNION { [1..n -> ConfigForecasts] : n \in 0..MaxObs }
    /\ min_wind_speed_needed = 50
    /\ direction_tolerance_in_degrees = 150
    /\ desired_quality_percentage = 75
    /\ TOP_WIND_SPEED = 200
    /\ EngineStart
    /\ calls = 1
    /\ first_result = <<>>
    /\ HelpersIdle

\* Config.TOP_WIND_SPEED is a class attribute: any code of the process can
\* assign it between two calls
SetTopWindSpeed ==
    /\ pc = "done"
    /\ calls < MaxCalls
    /\ \E speed \in {100, 200, 250} :
          /\ speed # TOP_WIND_SPEED
          /\ TOP_WIND_SPEED' = speed
    /\ UNCHANGED <<segment_deg, forecast_list, min_wind_speed_needed,
                   direction_tolerance_in_degrees, desired_quality_percentage,
                   pc, idx, favorable_conditions, favorable_conditions_by_date,
                   dates_left, sorted_by_date_then_by_score, result, calls,
                   first_result, helper_vars>>

\* the next call of the loop of main(), here with the same five arguments
CallAgain ==
    /\ pc = "done"
    /\ calls < MaxCalls
    /\ calls' = calls + 1
    /\ first_result' = IF calls = 1 THEN result ELSE first_result
    /\ pc' = "filter"
    /\ idx' = 1
    /\ favorable_conditions' = <<>>
    /\ favorable_conditions_by_date' = <<>>
    /\ dates_left' = {}
    /\ sorted_by_date_then_by_score' = <<>>
    /\ result' = <<>>
    /\ UNCHANGED <<segment_deg, forecast_list, min_wind_speed_needed,
                   direction_tolerance_in_degrees, desired_quality_percentage,
                   TOP_WIND_SPEED, helper_vars>>

NextConfig == Next \/ SetTopWindSpeed \/ CallAgain

SpecConfig == InitConfig /\ [][NextConfig]_vars

----------------------------------------------------------------------------
(* Python strings: a string is the sequence of its characters *)

Whitespace == {" ", "\t", "\n"}

DigitChars == <<"0", "1", "2", "3", "4", "5", "6", "7", "8", "9">>

\* str.strip()
RECURSIVE str_lstrip(_)
str_lstrip(s) ==
    IF s # <<>> /\ Head(s) \in Whitespace THEN str_lstrip(Tail(s)) ELSE s

RECURSIVE str_rstrip(_)
str_rstrip(s) ==
    IF s # <<>> /\ s[Len(s)] \in Whitespace
    THEN str_rstrip(SubSeq(s, 1, Len(s) - 1))
    ELSE s

str_strip(s) == str_rstrip(str_lstrip(s))

\* str.replace(old, new)
RECURSIVE str_replace(_, _, _)
str_replace(s, old, new) ==
    IF Len(s) < Len(old) THEN s
    ELSE IF SubSeq(s, 1, Len(old)) = old
    THEN new \o str_replace(SubSeq(s, Len(old) + 1, Len(s)), old, new)
    ELSE <<Head(s)>> \o str_replace(Tail(s), old, new)

\* str.split(sep) for a separator of one character
RECURSIVE str_split(_, _)
str_split(s, sep) ==
    IF \E i \in 1..Len(s) : s[i] = sep
    THEN LET i == CHOOSE i \in 1..Len(s) :
                      s[i] = sep /\ \A j \in 1..(i - 1) : s[j] # sep
         IN  <<SubSeq(s, 1, i - 1)>> \o str_split(SubSeq(s, i + 1, Len(s)), sep)
    ELSE <<s>>

IsDigits(s) ==
    /\ s # <<>>
    /\ \A i \in 1..Len(s) : \E d \in 1..10 : DigitChars[d] = s[i]

\* float(s) for a string of decimal digits
RECURSIVE float_of_digits(_)
float_of_digits(s) ==
    IF s = <<>> THEN 0
    ELSE 10 * float_of_digits(SubSeq(s, 1, Len(s) - 1))
         + (CHOOSE d \in 0..9 : DigitChars[d + 1] = s[Len(s)])

\* str(n) for n >= 0
RECURSIVE decimal(_)
decimal(n) ==
    IF n < 10 THEN <<DigitChars[n + 1]>>
    ELSE decimal(n \div 10) \o <<DigitChars[(n % 10) + 1]>>

\* f"{n}"
format_int(n) == IF n < 0 THEN <<"-">> \o decimal(-n) ELSE decimal(n)

\* f"{n:02d}" for n >= 0
format_02d(n) == IF n < 10 THEN <<"0">> \o decimal(n) ELSE decimal(n)

----------------------------------------------------------------------------
(* parse_time_to_seconds, format_time_difference_needed *)

\* the fields of line 19: the cleaned string split at the colons
time_fields(time_str) ==
    LET clean_time == str_strip(str_replace(time_str, <<" ", "m", "i", "n">>, <<>>))
        parts == str_split(clean_time, ":")
    IN  [k \in 1..Len(parts) |-> str_strip(parts[k])]

\* line 19 raises ValueError: not two fields, or a field float() rejects
parse_time_raises(time_str) ==
    \/ Len(time_fields(time_str)) # 2
    \/ \E k \in 1..Len(time_fields(time_str)) : ~IsDigits(time_fields(time_str)[k])

parse_time_to_seconds(time_str) ==
    LET minutes == float_of_digits(time_fields(time_str)[1])
        seconds == float_of_digits(time_fields(time_str)[2])
    IN  minutes * 60 + seconds

format_time_difference_needed(kom_time, my_time) ==
    IF parse_time_raises(kom_time) \/ parse_time_raises(my_time)
    THEN <<"ValueError">>
    ELSE LET kom_seconds == parse_time_to_seconds(kom_time)
             my_seconds == parse_time_to_seconds(my_time)
             diff_seconds == my_seconds - kom_seconds
             minutes == diff_seconds \div 60
             seconds == diff_seconds % 60
         IN  format_int(minutes) \o <<":">> \o format_02d(seconds)

----------------------------------------------------------------------------
(* KOMSegment.get_direction_degrees, in tenths of a degree *)

direction_to_degrees ==
    << <<<<"N">>, 0>>,
       <<<<"N", "N", "E">>, 225>>,
       <<<<"N", "E">>, 450>>,
       <<<<"E", "N", "E">>, 675>>,
       <<<<"E">>, 900>>,
       <<<<"E", "S", "E">>, 1125>>,
       <<<<"S", "E">>, 1350>>,
       <<<<"S", "S", "E">>, 1575>>,
       <<<<"S">>, 1800>>,
       <<<<"S", "S", "W">>, 2025>>,
       <<<<"S", "W">>, 2250>>,
       <<<<"W", "S", "W">>, 2475>>,
       <<<<"W">>, 2700>>,
       <<<<"W", "N", "W">>, 2925>>,
       <<<<"N", "W">>, 3150>>,
       <<<<"N", "N", "W">>, 3375>> >>

get_direction_degrees(direction) ==
    LET key == str_strip(direction)
    IN  IF \E k \in 1..Len(direction_to_degrees) : direction_to_degrees[k][1] = key
        THEN direction_to_degrees[CHOOSE k \in 1..Len(direction_to_degrees) :
                                      direction_to_degrees[k][1] = key][2]
        ELSE 0

----------------------------------------------------------------------------
(* Calls of the pure functions *)

\* times as the segment file gives them, each with the seconds it denotes
TimeStrings ==
    { [text |-> <<"1", ":", "3", "0">>, seconds |-> 90],
      [text |-> <<"2", ":", "0", "0">>, seconds |-> 120],
      [text |-> <<"2", ":", "0", "0", " ", "m", "i", "n">>, seconds |-> 120],
      [text |-> <<"1", ":", "0", "0", " ", "m", "i", "n">>, seconds |-> 60],
      [text |-> <<"0", ":", "5", "9">>, seconds |-> 59],
      [text |-> <<"1", "0", ":", "0", "5", " ", "m", "i", "n">>, seconds |-> 605],
      [text |-> <<"2", "0", ":", "0", "0">>, seconds |-> 1200],
      [text |-> <<"2", "2", ":", "0", "0">>, seconds |-> 1320],
      [text |-> <<"2", ":", "0", "5", " ", "m", "i", "n">>, seconds |-> 125] }

\* labels of the direction column: the 16 points as the table spells
\* them, and labels in other case, with whitespace, or no point at all
DirectionLabels ==
    { direction_to_degrees[k][1] : k \in 1..Len(direction_to_degrees) } \cup
    { <<" ", "N", "N", "E", " ">>,
      <<"S", "W", " ">>,
      <<"\t", "E">>,
      <<"N", "N", "W", "\n">>,
      <<"n", "n", "e">>,
      <<"S", "w">>,
      <<"n">>,
      <<"X">>,
      <<>>,
      <<"N", "O", "R", "T", "H">> }

Bearings == {0, 100, 225, 2700, 3500}

WindBearings == {100, 900, 950, 1000, 1050, 1100, 1575, 1700, 1800, 1900, 3500}

Tolerances == {75, 150, 225}

DateTimes == [date : {1, 2}, time : {0, SunriseTime, Noon, SunsetTime}]

InitHelpers ==
    /\ segment_deg = 0
    /\ forecast_list = <<>>
    /\ min_wind_speed_needed = 0
    /\ direction_tolerance_in_degrees = 0
    /\ desired_quality_percentage = 0
    /\ TOP_WIND_SPEED = 200
    /\ pc = "idle"
    /\ idx = 1
    /\ favorable_conditions = <<>>
    /\ favorable_conditions_by_date = <<>>
    /\ dates_left = {}
    /\ sorted_by_date_then_by_score = <<>>
    /\ result = <<>>
    /\ calls = 0
    /\ first_result = <<>>
    /\ HelpersIdle

CallAngleDifference ==
    /\ call.fn = "none"
    /\ \E seg \in Bearings, wind \in WindBearings :
          /\ call' = [fn |-> "calculate_absolute_angle_difference",
                      segment_deg |-> seg, wind_deg |-> wind]
          /\ ret' = calculate_absolute_angle_difference(seg, wind)
    /\ UNCHANGED <<ret_flag, ret_text>>
    /\ UNCHANGED engine_vars

CallAlignmentScore ==
    /\ call.fn = "none"
    /\ \E seg \in Bearings, wind \in WindBearings, tol \in Tolerances :
          /\ call' = [fn |-> "calculate_wind_alignment_score",
                      segment_deg |-> seg, wind_deg |-> wind,
                      degree_tolerance |-> tol]
          /\ ret' = calculate_wind_alignment_score(seg, wind, tol)
    /\ UNCHANGED <<ret_flag, ret_text>>
    /\ UNCHANGED engine_vars

CallIsDaylightHours ==
    /\ call.fn = "none"
    /\ \E t \in DateTimes, sunrise \in DateTimes, sunset \in DateTimes :
          /\ call' = [fn |-> "is_daylight_hours", datetime_to_check |-> t,
                      sunrise |-> sunrise, sunset |-> sunset]
          /\ ret_flag' = is_daylight_hours(t, sunrise, sunset)
    /\ UNCHANGED <<ret, ret_text>>
    /\ UNCHANGED engine_vars

CallFormatTimeDifference ==
    /\ call.fn = "none"
    /\ \E kom \in TimeStrings, my \in TimeStrings :
          /\ call' = [fn |-> "format_time_difference_needed",
                      kom_time |-> kom.text, my_time |-> my.text]
          /\ ret_text' = format_time_difference_needed(kom.text, my.text)
    /\ UNCHANGED <<ret, ret_flag>>
    /\ UNCHANGED engine_vars

CallGetDirectionDegrees ==
    /\ call.fn = "none"
    /\ \E direction \in DirectionLabels :
          /\ call' = [fn |-> "get_direction_degrees", direction |-> direction]
          /\ ret' = get_direction_degrees(direction)
    /\ UNCHANGED <<ret_flag, ret_text>>
    /\ UNCHANGED engine_vars

NextHelpers ==
    \/ CallAngleDifference
    \/ CallAlignmentScore
    \/ CallIsDaylightHours
    \/ CallFormatTimeDifference
    \/ CallGetDirectionDegrees

SpecHelpers == InitHelpers /\ [][NextHelpers]_vars

----------------------------------------------------------------------------
(* Claims about find_favorable_wind_conditions_for_a_segment *)

ForecastAt(p) == forecast_list[result[p][2]]

DateAt(p) == ForecastAt(p).datetime.date

ScoreAt(p) == result[p][1]

Returned(i) == \E p \in 1..Len(result) : result[p][2] = i

C2_OnlyQualifyingPairs ==
    pc = "done" =>
        \A p \in 1..Len(result) :
            /\ ForecastAt(p).sunrise.time <= ForecastAt(p).datetime.time
            /\ ForecastAt(p).datetime.time < ForecastAt(p).sunset.time
            /\ ForecastAt(p).wind_speed >= min_wind_speed_needed
            /\ python_round_percent(ScoreAt(p)) >= desired_quality_percentage
            /\ 0 <= ScoreAt(p)
            /\ ScoreAt(p) <= Scale

\* C2's case: a pair is returned while an observation at sunset, one below
\* the minimum speed and one below the quality threshold are left out.
C2_Witness ==
    /\ pc = "done"
    /\ Len(result) = 1
    /\ \E i \in 1..Len(forecast_list) :
          /\ forecast_list[i].datetime.time = forecast_list[i].sunset.time
          /\ ~Returned(i)
    /\ \E i \in 1..Len(forecast_list) :
          /\ forecast_list[i].wind_speed < min_wind_speed_needed
          /\ ~Returned(i)

\* an observation that is in daylight, meets the minimum speed and has
\* non-zero alignment
PassesFirstThree(forecast) ==
    /\ forecast.sunrise.time <= forecast.datetime.time
    /\ forecast.datetime.time < forecast.sunset.time
    /\ forecast.wind_speed >= min_wind_speed_needed
    /\ alignment_of(forecast) # 0

\* raw overall score exactly 0.745
RawScoreIs745(forecast) == score_of(forecast) = (745 * Scale) \div 1000

\* C3 as stated: a raw overall score of exactly 0.745 is compared as 75%, so
\* the observation is returned when desired_quality_percentage is 75.
C3_Original ==
    (pc = "done" /\ desired_quality_percentage = 75) =>
        \A i \in 1..Len(forecast_list) :
            (PassesFirstThree(forecast_list[i]) /\ RawScoreIs745(forecast_list[i]))
                => Returned(i)

\* C3 amended: the score is rounded to a whole percent before the
\* comparison (a raw score above 0.745 and below 0.75 passes a threshold of
\* 75), and a raw score of exactly 0.745 is compared as 74%: it is left out
\* at a threshold of 75 and returned at a threshold of 74 or less.
C3_RoundedHalfToEven ==
    pc = "done" =>
        \A i \in 1..Len(forecast_list) :
            LET forecast == forecast_list[i]
                raw == score_of(forecast)
            IN  PassesFirstThree(forecast) =>
                  /\ RawScoreIs745(forecast) =>
                        (Returned(i) <=> desired_quality_percentage <= 74)
                  /\ (/\ raw * 1000 > 745 * Scale
                      /\ raw * 100 < 75 * Scale
                      /\ desired_quality_percentage = 75) => Returned(i)

\* C3's case: at a threshold of 75 an observation of raw score 0.745 is left
\* out and one of raw score 0.7485 is returned.
C3_Witness ==
    /\ pc = "done"
    /\ desired_quality_percentage = 75
    /\ \E i \in 1..Len(forecast_list) :
          /\ PassesFirstThree(forecast_list[i])
          /\ RawScoreIs745(forecast_list[i])
          /\ ~Returned(i)
    /\ \E i \in 1..Len(forecast_list) :
          /\ score_of(forecast_list[i]) = (7485 * Scale) \div (10 * 1000)
          /\ Returned(i)

\* C5 as stated: two calls with the same five arguments return the same
\* list, whatever Config holds at each call.
C5_SameArgumentsSameResult ==
    (pc = "done" /\ calls >= 2) => result = first_result

\* C8: within one calendar date, returned pairs of equal score keep the
\* order their observations have in forecast_list.
C8_TiesInEncounterOrder ==
    pc = "done" =>
        \A p, q \in 1..Len(result) :
            (p < q /\ DateAt(p) = DateAt(q) /\ ScoreAt(p) = ScoreAt(q))
                => result[p][2] < result[q][2]

\* C8's case: two pairs of one date tie ahead of a third of lower score that
\* came first in the input.
C8_Witness ==
    /\ pc = "done"
    /\ Len(result) = 3
    /\ DateAt(1) = DateAt(3)
    /\ ScoreAt(1) = ScoreAt(2)
    /\ ScoreAt(2) > ScoreAt(3)
    /\ result[3][2] = 1

\* the angle between the segment and the travel direction of an
\* observation's wind
AngleOff(forecast) ==
    LET to_bearing == (forecast.wind_degrees + 1800) % 3600
        raw_diff == Abs(segment_deg - to_bearing)
    IN  IF raw_diff <= 3600 - raw_diff THEN raw_diff ELSE 3600 - raw_diff

\* C11: an observation whose angle difference to the segment exceeds
\* direction_tolerance_in_degrees is never returned, whatever its wind speed
\* and whatever desired_quality_percentage, 0 included.
C11_BeyondToleranceExcluded ==
    pc = "done" =>
        \A i \in 1..Len(forecast_list) :
            AngleOff(forecast_list[i]) > direction_tolerance_in_degrees
                => ~Returned(i)

\* C11's case: at a threshold of 0 an observation beyond the tolerance, in
\* daylight and at the speed cap, is left out while another is returned.
C11_Witness ==
    /\ pc = "done"
    /\ desired_quality_percentage = 0
    /\ result # <<>>
    /\ \E i \in 1..Len(forecast_list) :
          /\ AngleOff(forecast_list[i]) > direction_tolerance_in_degrees
          /\ forecast_list[i].sunrise.time <= forecast_list[i].datetime.time
          /\ forecast_list[i].datetime.time < forecast_list[i].sunset.time
          /\ forecast_list[i].wind_speed >= TOP_WIND_SPEED
          /\ ~Returned(i)

\* an input position that passes all four filters
Qualifies(i) ==
    /\ PassesFirstThree(forecast_list[i])
    /\ python_round_percent(score_of(forecast_list[i]))
           >= desired_quality_percentage

QualifyingPositions == {i \in 1..Len(forecast_list) : Qualifies(i)}

\* C12: grouping and sorting neither lose nor duplicate entries: the
\* returned list holds exactly the input positions that pass the four
\* filters, each once, each paired with its own overall score; with no
\* qualifying observation (an empty input included) the list is empty.
C12_PermutationOfQualifying ==
    pc = "done" =>
        /\ \A i \in 1..Len(forecast_list) : Returned(i) <=> Qualifies(i)
        /\ \A p, q \in 1..Len(result) : result[p][2] = result[q][2] => p = q
        /\ Len(result) = Cardinality(QualifyingPositions)
        /\ \A p \in 1..Len(result) :
              ScoreAt(p) = score_of(forecast_list[result[p][2]])
        /\ QualifyingPositions = {} => result = <<>>

\* C12's case: of three observations two qualify, fall on one date and come
\* back in another order than they were given, the third is left out.
C12_Witness ==
    /\ pc = "done"
    /\ Len(forecast_list) = 3
    /\ Cardinality(QualifyingPositions) = 2
    /\ Len(result) = 2
    /\ DateAt(1) = DateAt(2)
    /\ result[1][2] > result[2][2]

\* C12's other case: nothing qualifies and nothing is returned.
C12_WitnessEmpty ==
    /\ pc = "done"
    /\ QualifyingPositions = {}
    /\ result = <<>>

----------------------------------------------------------------------------
(* Claims about the pure functions *)

\* C4 as stated: calculate_absolute_angle_difference(350, 10) returns 20.
C4_Original ==
    (/\ call.fn = "calculate_absolute_angle_difference"
     /\ call.segment_deg = 3500
     /\ call.wind_deg = 100) => ret = 200

\* C4 amended: the second argument is the bearing the wind comes from, so
\* calculate_absolute_angle_difference(350, 10) returns 160, the separation
\* of 350 from the wind's travel direction 190; the wraparound at the 0/360
\* boundary gives 20 for a wind travelling to 10, that is for
\* calculate_absolute_angle_difference(350, 190).
C4_WraparoundOfTravelDirection ==
    call.fn = "calculate_absolute_angle_difference" =>
        /\ (call.segment_deg = 3500 /\ call.wind_deg = 100) => ret = 1600
        /\ (call.segment_deg = 3500 /\ call.wind_deg = 1900) => ret = 200

\* C4's case: the call with 350 and 10 has returned.
C4_Witness ==
    /\ call.fn = "calculate_absolute_angle_difference"
    /\ call.segment_deg = 3500
    /\ call.wind_deg = 100
    /\ ret = 1600

\* the angle difference of an alignment call, from the definition of 4.1
CallAngle ==
    LET to_bearing == (call.wind_deg + 1800) % 3600
        raw_diff == Abs(call.segment_deg - to_bearing)
    IN  IF raw_diff <= 3600 - raw_diff THEN raw_diff ELSE 3600 - raw_diff

\* C6 as stated: for tol > 0 the alignment score is exactly 1.0 at angle
\* difference 0, exactly 0.0 at angle difference tol and exactly 0.0 beyond.
C6_Original ==
    (call.fn = "calculate_wind_alignment_score" /\ call.degree_tolerance > 0) =>
        /\ CallAngle = 0 => ret = Scale
        /\ CallAngle = call.degree_tolerance => ret = 0
        /\ CallAngle > call.degree_tolerance => ret = 0

\* C7: is_daylight_hours is true exactly when the time of day lies in
\* [sunrise, sunset), whatever the three dates: true at sunrise, false at
\* sunset.
C7_HalfOpenTimeOfDay ==
    call.fn = "is_daylight_hours" =>
        /\ ret_flag <=> (/\ call.sunrise.time <= call.datetime_to_check.time
                    /\ call.datetime_to_check.time < call.sunset.time)
        /\ (/\ call.datetime_to_check.time = call.sunrise.time
            /\ call.sunrise.time < call.sunset.time) => ret_flag
        /\ call.datetime_to_check.time = call.sunset.time => ~ret_flag

\* C7's case: an observation at the sunrise time of day, on a later date than
\* the sunrise and sunset it is checked against, is in daylight.
C7_Witness ==
    /\ call.fn = "is_daylight_hours"
    /\ call.datetime_to_check.time = call.sunrise.time
    /\ call.datetime_to_check.date > call.sunset.date
    /\ call.sunset.date >= call.sunrise.date
    /\ ret_flag = TRUE

\* the seconds a time string of the segment file denotes
SecondsOf(text) == (CHOOSE t \in TimeStrings : t.text = text).seconds

\* the difference a rendering denotes: an optional sign, the minutes, a
\* colon, two digits of seconds below 60
IsSignedMSS(text, diff) ==
    LET negative == text # <<>> /\ Head(text) = "-"
        body == IF negative THEN Tail(text) ELSE text
        fields == str_split(body, ":")
    IN  /\ Len(fields) = 2
        /\ IsDigits(fields[1])
        /\ IsDigits(fields[2])
        /\ Len(fields[2]) = 2
        /\ float_of_digits(fields[2]) < 60
        /\ negative => diff < 0
        /\ Abs(diff) = float_of_digits(fields[1]) * 60 + float_of_digits(fields[2])

\* C9 as stated: format_time_difference_needed renders personal seconds
\* minus record seconds as signed M:SS, the fields giving the magnitude and
\* the sign marking a negative difference.
C9_Original ==
    call.fn = "format_time_difference_needed" =>
        IsSignedMSS(ret_text, SecondsOf(call.my_time) - SecondsOf(call.kom_time))

\* the 16 compass points in order, 22.5 degrees apart
CompassPoints ==
    << <<"N">>,
       <<"N", "N", "E">>,
       <<"N", "E">>,
       <<"E", "N", "E">>,
       <<"E">>,
       <<"E", "S", "E">>,
       <<"S", "E">>,
       <<"S", "S", "E">>,
       <<"S">>,
       <<"S", "S", "W">>,
       <<"S", "W">>,
       <<"W", "S", "W">>,
       <<"W">>,
       <<"W", "N", "W">>,
       <<"N", "W">>,
       <<"N", "N", "W">> >>

UpperCase(c) ==
    CASE c = "n" -> "N" [] c = "e" -> "E" [] c = "s" -> "S" [] c = "w" -> "W"
      [] OTHER -> c

\* label is point in some letter case, with whitespace around it
Spells(label, point) ==
    \E a \in 1..(Len(label) + 1) :
        LET b == a + Len(point) - 1
        IN  /\ b <= Len(label)
            /\ \A i \in 1..Len(label) : (i < a \/ i > b) => label[i] \in Whitespace
            /\ \A i \in 1..Len(point) : UpperCase(label[a + i - 1]) = point[i]

\* C10 as stated: each of the 16 points maps to its index times 22.5 degrees
\* whatever its letter case and surrounding whitespace, every other label
\* to 0.
C10_Original ==
    call.fn = "get_direction_degrees" =>
        /\ \A k \in 1..16 :
              Spells(call.direction, CompassPoints[k]) => ret = (k - 1) * 225
        /\ (\A k \in 1..16 : ~Spells(call.direction, CompassPoints[k])) => ret = 0

====
